---- MODULE Spec2Model ----
(***************************************************************************)
(* Model of synapsekit/base_tools/file_system.py: the five operations      *)
(* file_read, file_write, directory_list, file_delete and file_move over a *)
(* POSIX file tree.  The tree is a nested value: a directory node maps     *)
(* entry names to nodes, a file node holds the stored characters.  A path  *)
(* is the sequence of its components relative to the working directory;    *)
(* the empty sequence is the working directory itself (".").               *)
(* The platform calls the module delegates to (open, os.makedirs,          *)
(* os.listdir, os.remove, shutil.move, os.path.exists/isdir) are modelled  *)
(* by their CPython 3 / Linux behaviour at the line that calls them.       *)
(***************************************************************************)
EXTENDS Naturals, Sequences, FiniteSets

VARIABLES fs, prev, last

vars == <<fs, prev, last>>

----------------------------------------------------------------------------
(* Bounds *)

\* Longest path, in components, a call is given.
MaxDepth == 3
\* Longest content, in characters, a call is given.
MaxLen == 1
\* Most entries (files and directories) the tree holds.
MaxNodes == 3

Names == {"a", "b"}

\* Characters: an ordinary one, carriage return "\r", line feed "\n", and
\* a lone surrogate (a str character UTF-8 cannot encode).  Calls are given
\* contents over InputChars.
CR == "CR"
LF == "LF"
SUR == "SUR"
InputChars == {"x", CR, SUR}

SeqsUpTo(S, n) == UNION {[1..k -> S] : k \in 0..n}

Paths == SeqsUpTo(Names, MaxDepth) \ {<<>>}
Contents == SeqsUpTo(InputChars, MaxLen)

----------------------------------------------------------------------------
(* The file tree *)

EmptyDir == [kind |-> "dir", entries |-> <<>>]
FileNode(data) == [kind |-> "file", data |-> data]

Front(p) == SubSeq(p, 1, Len(p) - 1)
Last(p) == p[Len(p)]

\* stat(2) of path p from node: "file", "dir", or the errno ENOENT / ENOTDIR.
RECURSIVE Stat(_, _)
Stat(node, p) ==
    IF p = <<>> THEN node.kind
    ELSE IF node.kind # "dir" THEN "ENOTDIR"
    ELSE IF Head(p) \notin DOMAIN node.entries THEN "ENOENT"
    ELSE Stat(node.entries[Head(p)], Tail(p))

\* The node at an existing path.
RECURSIVE Lookup(_, _)
Lookup(node, p) ==
    IF p = <<>> THEN node ELSE Lookup(node.entries[Head(p)], Tail(p))

\* The tree with `new` linked at p (p's parent is an existing directory).
RECURSIVE Put(_, _, _)
Put(node, p, new) ==
    IF p = <<>> THEN new
    ELSE LET n == Head(p)
             child == IF Len(p) = 1 THEN new
                      ELSE Put(node.entries[n], Tail(p), new)
         IN [node EXCEPT !.entries =
                [m \in DOMAIN node.entries \cup {n} |->
                    IF m = n THEN child ELSE node.entries[m]]]

\* The tree with the entry at existing path p unlinked.
RECURSIVE Unlink(_, _)
Unlink(node, p) ==
    LET n == Head(p)
    IN IF Len(p) = 1
       THEN [node EXCEPT !.entries =
                [m \in DOMAIN node.entries \ {n} |-> node.entries[m]]]
       ELSE [node EXCEPT !.entries =
                [m \in DOMAIN node.entries |->
                    IF m = n THEN Unlink(node.entries[n], Tail(p))
                    ELSE node.entries[m]]]

\* Number of entries below a node.
RECURSIVE Size(_)
Size(node) ==
    IF node.kind # "dir" THEN 0
    ELSE LET RECURSIVE Sum(_)
             Sum(S) == IF S = {} THEN 0
                       ELSE LET n == CHOOSE n \in S : TRUE
                            IN 1 + Size(node.entries[n]) + Sum(S \ {n})
         IN Sum(DOMAIN node.entries)

exists(t, p) == Stat(t, p) \in {"file", "dir"}
isdir(t, p) == Stat(t, p) = "dir"

----------------------------------------------------------------------------
(* Text encoding layer of open(path, mode, encoding="utf-8") *)

\* os.linesep on POSIX.
linesep == <<LF>>

\* UTF-8 cannot encode a lone surrogate: f.write raises UnicodeEncodeError.
Encodable(content) == \A i \in 1..Len(content) : content[i] # SUR

\* Text-mode write, newline=None: every "\n" becomes os.linesep.
RECURSIVE WriteTranslate(_)
WriteTranslate(s) ==
    IF s = <<>> THEN <<>>
    ELSE (IF Head(s) = LF THEN linesep ELSE <<Head(s)>>) \o WriteTranslate(Tail(s))

\* Text-mode read, newline=None (universal newlines): "\r\n" and "\r"
\* both become "\n".
RECURSIVE ReadTranslate(_)
ReadTranslate(s) ==
    IF s = <<>> THEN <<>>
    ELSE IF Head(s) = CR
         THEN IF Len(s) >= 2 /\ s[2] = LF
              THEN <<LF>> \o ReadTranslate(Tail(Tail(s)))
              ELSE <<LF>> \o ReadTranslate(Tail(s))
         ELSE <<Head(s)>> \o ReadTranslate(Tail(s))

----------------------------------------------------------------------------
(* Platform calls: each returns the exception class it raises ("none" when *)
(* it returns normally) and the tree it leaves.                            *)

Raise(exc, t) == [exc |-> exc, fs |-> t]
Normal(t) == [exc |-> "none", fs |-> t]

\* open(path, "r"): the exception class, by errno.
open_r(t, path) ==
    LET st == Stat(t, path)
    IN IF st = "ENOENT" THEN "FileNotFoundError"
       ELSE IF st = "ENOTDIR" THEN "NotADirectoryError"
       ELSE IF st = "dir" THEN "IsADirectoryError"
       ELSE "none"

\* open(path, "w"): creates the file, or truncates an existing one.
open_w(t, path) ==
    LET st == Stat(t, path)
    IN IF st = "ENOTDIR" THEN Raise("NotADirectoryError", t)
       ELSE IF st = "dir" THEN Raise("IsADirectoryError", t)
       ELSE IF st = "ENOENT" /\ Stat(t, Front(path)) # "dir"
            THEN Raise("FileNotFoundError", t)
       ELSE Normal(Put(t, path, FileNode(<<>>)))

\* os.mkdir(name).
mkdir(t, name) ==
    LET parent == Stat(t, Front(name))
    IN IF parent = "ENOENT" THEN Raise("FileNotFoundError", t)
       ELSE IF parent # "dir" THEN Raise("NotADirectoryError", t)
       ELSE IF exists(t, name) THEN Raise("FileExistsError", t)
       ELSE Normal(Put(t, name, EmptyDir))

\* Variant of makedirs: os.mkdir in its place, one level only.
makedirs_single(t, name) ==
    LET made == mkdir(t, name)
    IN IF made.exc # "none" /\ isdir(t, name) THEN Normal(t) ELSE made

\* os.makedirs(name, exist_ok=True): the missing ancestors first, then name;
\* an OSError of the last mkdir is swallowed when name is a directory.
RECURSIVE makedirs(_, _)
makedirs(t, name) ==
    LET head == Front(name)
        up == IF name # <<>> /\ head # <<>> /\ ~exists(t, head)
              THEN makedirs(t, head)
              ELSE Normal(t)
    IN IF up.exc \notin {"none", "FileExistsError"} THEN up
       ELSE LET made == mkdir(up.fs, name)
            IN IF made.exc # "none" /\ isdir(up.fs, name)
               THEN Normal(up.fs)
               ELSE made

\* Variant of listdir_names: the names of every entry below the directory,
\* as a recursive walk would collect them.
RECURSIVE NamesBelow(_)
NamesBelow(node) ==
    IF node.kind # "dir" THEN {}
    ELSE DOMAIN node.entries
             \cup UNION {NamesBelow(node.entries[n]) : n \in DOMAIN node.entries}

listdir_walk(t, path) == NamesBelow(Lookup(t, path))

\* os.listdir(path): the entry names of the directory, in an order the
\* platform chooses (every order is a member of the set returned).
listdir_names(t, path) == DOMAIN Lookup(t, path).entries

Orders(S) ==
    {s \in [1..Cardinality(S) -> S] : \A i, j \in DOMAIN s : s[i] = s[j] => i = j}

listdir_exc(t, path) ==
    LET st == Stat(t, path)
    IN IF st = "ENOENT" THEN "FileNotFoundError"
       ELSE IF st \in {"ENOTDIR", "file"} THEN "NotADirectoryError"
       ELSE "none"

\* Variant of os_remove: empties the directory that holds the file.
os_remove_siblings(t, path) ==
    IF Stat(t, path) # "file" THEN Raise("FileNotFoundError", t)
    ELSE Normal(Put(t, Front(path), EmptyDir))

\* os.remove(path): unlink(2); EISDIR on a directory (Linux).
os_remove(t, path) ==
    LET st == Stat(t, path)
    IN IF st = "ENOENT" THEN Raise("FileNotFoundError", t)
       ELSE IF st = "ENOTDIR" THEN Raise("NotADirectoryError", t)
       ELSE IF st = "dir" THEN Raise("IsADirectoryError", t)
       ELSE Normal(Unlink(t, path))

IsPrefix(p, q) == Len(p) <= Len(q) /\ SubSeq(q, 1, Len(p)) = p

\* os.rename(src, dst), rename(2): a file replaces an existing file; a
\* directory cannot go below itself (EINVAL), onto a file or onto a
\* directory that has entries (ENOTEMPTY).
os_rename(t, src, dst) ==
    LET st == Stat(t, src)
        dp == Stat(t, Front(dst))
        moved == Put(Unlink(t, src), dst, Lookup(t, src))
    IN IF st = "ENOENT" THEN Raise("FileNotFoundError", t)
       ELSE IF st = "ENOTDIR" THEN Raise("NotADirectoryError", t)
       ELSE IF src = dst THEN Normal(t)
       ELSE IF st = "dir" /\ IsPrefix(src, dst) THEN Raise("OSError", t)
       ELSE IF dp = "ENOENT" THEN Raise("FileNotFoundError", t)
       ELSE IF dp # "dir" THEN Raise("NotADirectoryError", t)
       ELSE IF st = "file"
            THEN IF isdir(t, dst) THEN Raise("IsADirectoryError", t)
                 ELSE Normal(moved)
       ELSE IF Stat(t, dst) = "file" THEN Raise("NotADirectoryError", t)
       ELSE IF isdir(t, dst) /\ listdir_names(t, dst) # {}
            THEN Raise("OSError", t)
       ELSE Normal(moved)

\* Variant of copy_unlink: the source is removed before the destination is
\* opened.
unlink_copy(t, src, dst) ==
    LET rd == open_r(t, src)
        gone == IF rd = "none" THEN Unlink(t, src) ELSE t
        wr == open_w(gone, dst)
    IN IF rd # "none" THEN Raise(rd, t)
       ELSE IF wr.exc # "none" THEN wr
       ELSE Normal(Put(wr.fs, dst, Lookup(t, src)))

\* shutil.copy2(src, dst) then os.unlink(src): shutil.move's fallback for a
\* file when os.rename raised OSError.  The source is opened first, then
\* the destination is opened for writing.
copy_unlink(t, src, dst) ==
    LET rd == open_r(t, src)
        wr == open_w(t, dst)
    IN IF rd # "none" THEN Raise(rd, t)
       ELSE IF wr.exc # "none" THEN wr
       ELSE Normal(Unlink(Put(wr.fs, dst, Lookup(t, src)), src))

\* shutil.copytree(src, dst) then shutil.rmtree(src): the fallback for a
\* directory; copytree's os.makedirs(dst) refuses an existing dst.
copytree_rmtree(t, src, dst) ==
    IF exists(t, dst) THEN Raise("FileExistsError", t)
    ELSE IF Stat(t, Front(dst)) # "dir" THEN Raise("NotADirectoryError", t)
    ELSE Normal(Put(Unlink(t, src), dst, Lookup(t, src)))

\* Variant of shutil_move: shutil.copy, which leaves the source in place.
shutil_copy(t, src, dst) ==
    LET real_dst == IF isdir(t, dst) THEN Append(dst, Last(src)) ELSE dst
        rd == open_r(t, src)
        wr == open_w(t, real_dst)
    IN IF rd # "none" THEN Raise(rd, t)
       ELSE IF wr.exc # "none" THEN wr
       ELSE Normal(Put(wr.fs, real_dst, Lookup(t, src)))

\* shutil.move(src, dst): a destination that is a directory receives the
\* source under its base name; when os.rename raises OSError the source is
\* copied and removed, except a directory asked to move into itself.
shutil_move(t, src, dst) ==
    LET into == isdir(t, dst)
        real_dst == IF into THEN Append(dst, Last(src)) ELSE dst
        rn == os_rename(t, src, real_dst)
    IN IF into /\ src = dst THEN Normal(t)
       ELSE IF into /\ exists(t, real_dst) THEN Raise("shutil.Error", t)
       ELSE IF rn.exc = "none" THEN rn
       ELSE IF isdir(t, src)
            THEN IF IsPrefix(src, dst) THEN Raise("shutil.Error", t)
                 ELSE copytree_rmtree(t, src, real_dst)
       ELSE copy_unlink(t, src, real_dst)

----------------------------------------------------------------------------
(* Another process acting on the path between a call's up-front checks and *)
(* its platform call: nothing, the path removed, or the path replaced by   *)
(* an entry of the other type.                                             *)

Interfere(t, p, env) ==
    IF env = "none" \/ p = <<>> \/ ~exists(t, p) THEN t
    ELSE IF env = "vanish" THEN Unlink(t, p)
    ELSE IF isdir(t, p) THEN Put(t, p, FileNode(<<>>))
    ELSE Put(t, p, EmptyDir)

----------------------------------------------------------------------------
(* The five operations.  An outcome is the tree left behind, the result    *)
(* (res: "ok" or the class of the exception the caller sees), the value    *)
(* returned, the stage that failed ("check": an up-front check raised,     *)
(* "platform": a platform call raised) and the class the platform raised.  *)

Outcome(t, res, val, stage, exc) ==
    [fs |-> t, res |-> res, val |-> val, stage |-> stage, exc |-> exc]
Ok(t, val) == Outcome(t, "ok", val, "done", "none")

\* except FileNotFoundError: raise FileNotFoundError; except Exception: IOError
read_except(exc) ==
    IF exc = "FileNotFoundError" THEN "FileNotFoundError" ELSE "IOError"

\* except Exception: raise IOError
write_except(exc) == "IOError"

\* Variant of list_except: NotADirectoryError is not in the re-raised tuple.
list_except_wrap(exc) ==
    IF exc = "FileNotFoundError" THEN exc ELSE "IOError"

\* except (FileNotFoundError, NotADirectoryError): raise e; else IOError
list_except(exc) ==
    IF exc \in {"FileNotFoundError", "NotADirectoryError"} THEN exc ELSE "IOError"

\* except (FileNotFoundError, IsADirectoryError): raise e; else IOError
delete_except(exc) ==
    IF exc \in {"FileNotFoundError", "IsADirectoryError"} THEN exc ELSE "IOError"

\* Variant of move_except: directory_list's tuple in its place.
move_except_list(exc) ==
    IF exc \in {"FileNotFoundError", "NotADirectoryError"} THEN exc ELSE "IOError"

\* except (FileNotFoundError, IsADirectoryError): raise e; else IOError
move_except(exc) ==
    IF exc \in {"FileNotFoundError", "IsADirectoryError"} THEN exc ELSE "IOError"

file_read(t, path) ==
    LET exc == open_r(t, path)
    IN IF exc # "none"
       THEN Outcome(t, read_except(exc), <<>>, "platform", exc)
       ELSE Ok(t, ReadTranslate(Lookup(t, path).data))

file_write(t, path, content) ==
    LET md == makedirs(t, Front(path))
        op == open_w(md.fs, path)
    IN IF md.exc # "none"
       THEN Outcome(md.fs, write_except(md.exc), <<>>, "platform", md.exc)
       ELSE IF op.exc # "none"
       THEN Outcome(op.fs, write_except(op.exc), <<>>, "platform", op.exc)
       ELSE IF ~Encodable(content)
       THEN Outcome(op.fs, write_except("UnicodeEncodeError"), <<>>,
                    "platform", "UnicodeEncodeError")
       ELSE Ok(Put(op.fs, path, FileNode(WriteTranslate(content))), <<>>)

\* The set of outcomes: one for each order os.listdir may return.
directory_list(t, path, env) ==
    LET t1 == Interfere(t, path, env)
        exc == listdir_exc(t1, path)
    IN IF ~exists(t, path)
       THEN {Outcome(t, list_except("FileNotFoundError"), <<>>, "check", "none")}
       ELSE IF ~isdir(t, path)
       THEN {Outcome(t, list_except("NotADirectoryError"), <<>>, "check", "none")}
       ELSE IF exc # "none"
       THEN {Outcome(t1, list_except(exc), <<>>, "platform", exc)}
       ELSE {Ok(t1, order) : order \in Orders(listdir_names(t1, path))}

\* Variant of file_delete: no directory check, and a removal that takes
\* whatever the path names.
file_delete_any(t, path, env) ==
    LET t1 == Interfere(t, path, env)
    IN IF ~exists(t, path)
       THEN Outcome(t, delete_except("FileNotFoundError"), <<>>, "check", "none")
       ELSE IF ~exists(t1, path)
       THEN Outcome(t1, delete_except("FileNotFoundError"), <<>>, "platform",
                    "FileNotFoundError")
       ELSE Ok(Unlink(t1, path), <<>>)

file_delete(t, path, env) ==
    LET t1 == Interfere(t, path, env)
        rm == os_remove(t1, path)
    IN IF ~exists(t, path)
       THEN Outcome(t, delete_except("FileNotFoundError"), <<>>, "check", "none")
       ELSE IF isdir(t, path)
       THEN Outcome(t, delete_except("IsADirectoryError"), <<>>, "check", "none")
       ELSE IF rm.exc # "none"
       THEN Outcome(rm.fs, delete_except(rm.exc), <<>>, "platform", rm.exc)
       ELSE Ok(rm.fs, <<>>)

file_move(t, source, destination, env) ==
    LET t1 == Interfere(t, source, env)
        dest_dir == Front(destination)
        md == IF dest_dir # <<>> /\ ~exists(t1, dest_dir)
              THEN makedirs(t1, dest_dir)
              ELSE Normal(t1)
        mv == shutil_move(md.fs, source, destination)
    IN IF ~exists(t, source)
       THEN Outcome(t, move_except("FileNotFoundError"), <<>>, "check", "none")
       ELSE IF isdir(t, source)
       THEN Outcome(t, move_except("IsADirectoryError"), <<>>, "check", "none")
       ELSE IF md.exc # "none"
       THEN Outcome(md.fs, move_except(md.exc), <<>>, "platform", md.exc)
       ELSE IF mv.exc # "none"
       THEN Outcome(mv.fs, move_except(mv.exc), <<>>, "platform", mv.exc)
       ELSE Ok(mv.fs, <<>>)

----------------------------------------------------------------------------
(* State machine: fs is the tree; while a call's outcome is with the       *)
(* caller, last is the call with its arguments and outcome and prev the    *)
(* tree the call started from.  Calls are sequential: the next one starts  *)
(* after the caller has taken the outcome (Return).                        *)

NoCall ==
    [op |-> "none", path |-> <<>>, dst |-> <<>>, content |-> <<>>,
     env |-> "none", res |-> "ok", val |-> <<>>, stage |-> "done",
     exc |-> "none"]

Init ==
    /\ fs = EmptyDir
    /\ prev = EmptyDir
    /\ last = NoCall

Idle == last.op = "none"

Call(op, path, dst, content, env, out) ==
    /\ Size(out.fs) <= MaxNodes
    /\ fs' = out.fs
    /\ prev' = fs
    /\ last' = [op |-> op, path |-> path, dst |-> dst, content |-> content,
                env |-> env, res |-> out.res, val |-> out.val,
                stage |-> out.stage, exc |-> out.exc]

FileRead ==
    /\ Idle
    /\ \E p \in Paths :
           Call("file_read", p, <<>>, <<>>, "none", file_read(fs, p))

FileWrite ==
    /\ Idle
    /\ \E p \in Paths, c \in Contents :
           Call("file_write", p, <<>>, c, "none", file_write(fs, p, c))

DirectoryList ==
    /\ Idle
    /\ \E p \in Paths \cup {<<>>} :
           \E out \in directory_list(fs, p, "none") :
               Call("directory_list", p, <<>>, <<>>, "none", out)

FileDelete ==
    /\ Idle
    /\ \E p \in Paths :
           Call("file_delete", p, <<>>, <<>>, "none", file_delete(fs, p, "none"))

\* A destination that is a directory at the depth bound would receive the
\* file one level deeper: outside the bound.
FileMove ==
    /\ Idle
    /\ \E s \in Paths, d \in Paths :
           /\ ~(isdir(fs, d) /\ Len(d) = MaxDepth)
           /\ Call("file_move", s, d, <<>>, "none", file_move(fs, s, d, "none"))

\* The caller takes the outcome; the call's record is gone.
Return ==
    /\ ~Idle
    /\ fs' = fs
    /\ prev' = fs
    /\ last' = NoCall

Next ==
    \/ FileRead
    \/ FileWrite
    \/ DirectoryList
    \/ FileDelete
    \/ FileMove
    \/ Return

Spec == Init /\ [][Next]_vars

\* The same calls with another process interfering between check and use.
Races == {"vanish", "retype"}

DirectoryListRace ==
    /\ Idle
    /\ \E p \in Paths, env \in Races :
           \E out \in directory_list(fs, p, env) :
               Call("directory_list", p, <<>>, <<>>, env, out)

FileDeleteRace ==
    /\ Idle
    /\ \E p \in Paths, env \in Races :
           Call("file_delete", p, <<>>, <<>>, env, file_delete(fs, p, env))

FileMoveRace ==
    /\ Idle
    /\ \E s \in Paths, d \in Paths :
           /\ ~(isdir(fs, d) /\ Len(d) = MaxDepth)
           /\ Call("file_move", s, d, <<>>, "vanish", file_move(fs, s, d, "vanish"))

NextRace ==
    \/ Next
    \/ DirectoryListRace
    \/ FileDeleteRace
    \/ FileMoveRace

SpecRace == Init /\ [][NextRace]_vars

----------------------------------------------------------------------------
(* Properties *)

Range(s) == {s[i] : i \in DOMAIN s}

\* Path q names the same thing, with the same content, in trees t1 and t2.
Same(t1, t2, q) ==
    /\ Stat(t1, q) = Stat(t2, q)
    /\ Stat(t1, q) = "file" => Lookup(t1, q).data = Lookup(t2, q).data

\* The nonempty proper prefixes of path p: its parent directories.
Parents(p) == {SubSeq(p, 1, k) : k \in 1..(Len(p) - 1)}

Failed == ~Idle /\ last.res # "ok"
Succeeded(op) == last.op = op /\ last.res = "ok"

\* C1: after file_write(p, c) has succeeded, file_read(p) returns exactly
\* c, also when p held other content before the write.
C1_RoundTrip ==
    Succeeded("file_write") =>
        LET read == file_read(fs, last.path)
        IN read.res = "ok" /\ read.val = last.content

\* C2: whenever file_move(s, d) succeeds, s no longer exists, d is a file
\* holding the content s had, and every parent directory of d exists.
C2_MoveRelocates ==
    Succeeded("file_move") =>
        /\ ~exists(fs, last.path)
        /\ Stat(fs, last.dst) = "file"
        /\ Lookup(fs, last.dst).data = Lookup(prev, last.path).data
        /\ \A q \in Parents(last.dst) : isdir(fs, q)

\* C2 as amended: the above when d is neither s nor an existing directory;
\* when d is an existing directory the file arrives at d/basename(s) and d
\* stays a directory; when d is s nothing changes.
C2_MoveRelocatesAmended ==
    Succeeded("file_move") =>
        LET s == last.path
            d == last.dst
            inside == Append(d, Last(s))
        IN IF d = s THEN fs = prev
           ELSE IF isdir(prev, d)
           THEN /\ ~exists(fs, s)
                /\ isdir(fs, d)
                /\ Stat(fs, inside) = "file"
                /\ Lookup(fs, inside).data = Lookup(prev, s).data
           ELSE /\ ~exists(fs, s)
                /\ Stat(fs, d) = "file"
                /\ Lookup(fs, d).data = Lookup(prev, s).data
                /\ \A q \in Parents(d) : isdir(fs, q)

\* A file moved to a destination two missing directories deep.
C2_Witness ==
    /\ Succeeded("file_move")
    /\ Len(last.dst) = 3
    /\ ~exists(prev, SubSeq(last.dst, 1, 1))
    /\ Lookup(fs, last.dst).data # <<>>

\* C3: file_read, directory_list, file_delete and file_move on a path that
\* does not exist fail with FileNotFoundError (NotFound) and nothing else.
C3_MissingTarget ==
    (/\ last.op \in {"file_read", "directory_list", "file_delete", "file_move"}
     /\ ~exists(prev, last.path))
        => last.res = "FileNotFoundError"

\* C4: directory_list on a regular file fails with NotADirectoryError;
\* file_delete and file_move on a directory fail with IsADirectoryError,
\* whatever the destination.
C4_TypeMismatch ==
    /\ (last.op = "directory_list" /\ Stat(prev, last.path) = "file")
           => last.res = "NotADirectoryError"
    /\ (last.op \in {"file_delete", "file_move"} /\ isdir(prev, last.path))
           => last.res = "IsADirectoryError"

C4_Witness ==
    /\ last.op = "directory_list"
    /\ Stat(prev, last.path) = "file"
    /\ last.res = "NotADirectoryError"

\* C5: after a successful file_delete(p), p does not exist and every other
\* file and directory is as it was.
C5_DeleteFrame ==
    Succeeded("file_delete") =>
        /\ ~exists(fs, last.path)
        /\ \A q \in Paths : ~IsPrefix(last.path, q) => Same(fs, prev, q)

\* A file deleted from a directory that holds a sibling.
C5_Witness ==
    /\ Succeeded("file_delete")
    /\ Len(last.path) >= 2
    /\ Cardinality(listdir_names(fs, Front(last.path))) >= 1

\* No component of p is in the way: no parent is a regular file and p is
\* not a directory.
Writable(t, p) ==
    /\ \A q \in Parents(p) : Stat(t, q) \in {"dir", "ENOENT"}
    /\ Stat(t, p) \in {"file", "ENOENT"}

\* C6: file_write(p, c) whose parent directories are missing creates all of
\* them and then the file; directory_list of p's parent then succeeds and
\* names p; a path with no directory component creates no directory and
\* the write still succeeds.
C6_AutoCreate ==
    (last.op = "file_write" /\ Writable(prev, last.path)) =>
        /\ \A q \in Parents(last.path) : isdir(fs, q)
        /\ Stat(fs, last.path) = "file"
        /\ Encodable(last.content) => last.res = "ok"
        /\ \A out \in directory_list(fs, Front(last.path), "none") :
               out.res = "ok" /\ Last(last.path) \in Range(out.val)
        /\ Len(last.path) = 1 =>
               \A q \in Paths : isdir(fs, q) <=> isdir(prev, q)

\* A successful write below two directories that did not exist.
C6_Witness ==
    /\ Succeeded("file_write")
    /\ Len(last.path) = 3
    /\ ~exists(prev, SubSeq(last.path, 1, 1))

\* C7: directory_list(d) returns exactly the names of d's direct children,
\* files and directories alike, each once, and no name found only deeper.
C7_ListOneLevel ==
    Succeeded("directory_list") =>
        /\ Range(last.val) =
               {n \in Names : exists(fs, Append(last.path, n))}
        /\ \A i, j \in DOMAIN last.val : last.val[i] = last.val[j] => i = j
        /\ \A q \in Paths :
               (/\ IsPrefix(last.path, q)
                /\ Len(q) >= Len(last.path) + 2
                /\ exists(fs, q)
                /\ ~exists(fs, Append(last.path, Last(q))))
                   => Last(q) \notin Range(last.val)

\* A listing of a directory whose subdirectory holds an entry under a name
\* the directory itself does not hold.
C7_Witness ==
    /\ Succeeded("directory_list")
    /\ Len(last.val) = 1
    /\ \E q \in Paths :
           /\ IsPrefix(last.path, q)
           /\ Len(q) = Len(last.path) + 2
           /\ exists(fs, q)
           /\ Last(q) \notin Range(last.val)

\* C8: a call that fails leaves the same files, directories and contents
\* as before it, apart from the file a failed write was writing; no
\* directory is left behind and a failed move's source stays.
C8_NoPartialState ==
    Failed =>
        IF last.op = "file_write"
        THEN \A q \in Paths : IsPrefix(last.path, q) \/ Same(fs, prev, q)
        ELSE fs = prev

\* C8 as amended: a failed call removes nothing and changes no content but
\* that of a failed write's target; file_read, directory_list, file_delete
\* and file_move leave the tree as it was; a failed file_write may leave
\* the directories it created and its target created empty or truncated.
C8_FailureKeepsExisting ==
    Failed =>
        IF last.op = "file_write"
        THEN \A q \in Paths :
                 exists(prev, q) =>
                     IF q = last.path THEN Stat(fs, q) = Stat(prev, q)
                     ELSE Same(fs, prev, q)
        ELSE fs = prev

\* A failed write that left a directory it had created.
C8_Witness ==
    /\ Failed
    /\ last.op = "file_write"
    /\ \E q \in Paths : isdir(fs, q) /\ ~exists(prev, q)

\* C9: in directory_list, file_delete and file_move, a failure of the
\* platform call after the checks passed is reported as IOError.
C9_PlatformFailureIsIOError ==
    (/\ last.op \in {"directory_list", "file_delete", "file_move"}
     /\ last.stage = "platform")
        => last.res = "IOError"

\* C9 as amended: such a failure is reported as IOError unless the platform
\* raised a class the operation re-raises (FileNotFoundError and
\* NotADirectoryError in directory_list, FileNotFoundError and
\* IsADirectoryError in file_delete and file_move), which reaches the
\* caller unchanged.
C9_PlatformFailureMapping ==
    (/\ last.op \in {"directory_list", "file_delete", "file_move"}
     /\ last.stage = "platform")
        => LET kept == IF last.op = "directory_list"
                       THEN {"FileNotFoundError", "NotADirectoryError"}
                       ELSE {"FileNotFoundError", "IsADirectoryError"}
           IN /\ last.exc \in kept => last.res = last.exc
              /\ last.exc \notin kept => last.res = "IOError"

\* os.remove raised IsADirectoryError after file_delete's checks had seen a
\* file: the caller sees IsADirectoryError.
C9_Witness ==
    /\ last.op = "file_delete"
    /\ last.stage = "platform"
    /\ last.exc = "IsADirectoryError"
    /\ last.res = "IsADirectoryError"

\* C10: under sequential calls every directory that existed before a call
\* is a directory at the same path after it, whether the call succeeded or
\* failed; file_delete and file_move refuse a directory with
\* IsADirectoryError in their checks, leaving the tree untouched.
C10_DirectoriesStay ==
    /\ fs # prev => \A q \in Paths : isdir(prev, q) => isdir(fs, q)
    /\ (last.op \in {"file_delete", "file_move"} /\ isdir(prev, last.path))
           => /\ last.res = "IsADirectoryError"
              /\ last.stage = "check"
              /\ fs = prev

\* file_delete refused a directory that holds entries.
C10_Witness ==
    /\ last.op = "file_delete"
    /\ isdir(prev, last.path)
    /\ listdir_names(prev, last.path) # {}
    /\ last.res = "IsADirectoryError"

====
